---- MODULE Spec2Model ----
(***************************************************************************)
(* HierarchicalClassifier (sklearn_hierarchical_classification/classifier.py) *)
(* as a state machine: construction, fit() and the prediction walk.         *)
(*                                                                         *)
(* A training matrix has one feature column: X[i] is that feature's value   *)
(* for row i, 0 for a row whose feature vector is all zeros.  A node's      *)
(* feature cache is a matrix of the same shape (rows that do not belong to  *)
(* the node are zero), so it is a function from row index to a number.      *)
(***************************************************************************)
EXTENDS Integers, Sequences, FiniteSets, TLC

\* ---------------------------------------------------------------- bounds
NRows == 3          \* training rows handed to one fit()
MaxPathLen == 5     \* the walk's path is cut off at this length
MaxFits == 2        \* fit() calls on one instance

\* ------------------------------------------------------------- constants
ROOT == "ROOT"
DEFAULT == "DEFAULT"

Labels == {"A", "B", "C", "D"}
Nodes == Labels \cup {ROOT}
Rows == 1..NRows

\* np.unique and sorted() order the identifiers; "<ROOT>" sorts first.
Rank(n) ==
  CASE n = ROOT -> 0
    [] n = "A" -> 1
    [] n = "B" -> 2
    [] n = "C" -> 3
    [] n = "D" -> 4

None == <<>>
Some(v) == <<v>>
Get(o) == o[1]

SeqToSet(s) == {s[i] : i \in DOMAIN s}

RECURSIVE SortedSeq(_)
SortedSeq(S) ==
  IF S = {} THEN <<>>
  ELSE LET m == CHOOSE a \in S : \A b \in S : Rank(a) <= Rank(b)
       IN <<m>> \o SortedSeq(S \ {m})

\* np.unique(values): the distinct values, sorted
unique(s) == SortedSeq(SeqToSet(s))

RECURSIVE SelectSeqIdx(_, _, _)
\* the indices i >= k of s, ascending, with keep[i]
SelectSeqIdx(n, keep, k) ==
  IF k > n THEN <<>>
  ELSE (IF keep[k] THEN <<k>> ELSE <<>>) \o SelectSeqIdx(n, keep, k + 1)

\* ------------------------------------------------------------ hierarchy
NoSucc == [n \in Nodes |-> <<>>]

\* The class_hierarchy objects a caller supplies (dict-of-lists adjacency).
\*   tree:      ROOT -> A, B;  A -> C, D
\*   dag_leaf:  ROOT -> A, B;  A -> C, D;  B -> D       (leaf D has two parents)
\*   dag_inner: ROOT -> A, B;  A -> C;  B -> C;  C -> D (inner C has two parents)
HierarchyNames == {"tree", "dag_leaf", "dag_inner"}

class_hierarchy_succ(h) ==
  CASE h = "tree" ->
         [NoSucc EXCEPT ![ROOT] = <<"A", "B">>, !["A"] = <<"C", "D">>]
    [] h = "dag_leaf" ->
         [NoSucc EXCEPT ![ROOT] = <<"A", "B">>, !["A"] = <<"C", "D">>,
                        !["B"] = <<"D">>]
    [] h = "dag_inner" ->
         [NoSucc EXCEPT ![ROOT] = <<"A", "B">>, !["A"] = <<"C">>,
                        !["B"] = <<"C">>, !["C"] = <<"D">>]

\* make_flat_hierarchy(labels, root): root -> every distinct label
make_flat_hierarchy(labels) == [NoSucc EXCEPT ![ROOT] = labels]

NoAttr == [X |-> None, metafeatures |-> None, classifier |-> None]

\* DiGraph(class_hierarchy_): nodes in insertion order (keys, then successors),
\* every node with an empty attribute dict.
DiGraph(succ) ==
  LET keys == {n \in Nodes : succ[n] # <<>>}
      tgts == UNION {SeqToSet(succ[n]) : n \in Nodes}
  IN [nodes |-> SortedSeq(keys) \o SortedSeq(tgts \ keys),
      succ |-> succ,
      attr |-> [n \in Nodes |-> NoAttr]]

NoGraph == [nodes |-> <<>>, succ |-> NoSucc, attr |-> [n \in Nodes |-> NoAttr]]

successors(g, n) == g.succ[n]
out_degree(g, n) == Len(g.succ[n])
NodeSet(g) == SeqToSet(g.nodes)
Children(g, n) == SeqToSet(g.succ[n])
NumEdges(g) == LET RECURSIVE Sum(_)
                   Sum(S) == IF S = {} THEN 0
                             ELSE LET n == CHOOSE n \in S : TRUE
                                  IN Len(g.succ[n]) + Sum(S \ {n})
               IN Sum(Nodes)

\* networkx.is_tree: connected with one edge less than nodes
is_tree(g) == NumEdges(g) = Len(g.nodes) - 1

RECURSIVE Descendants(_, _)
Descendants(g, n) ==
  Children(g, n) \cup UNION {Descendants(g, c) : c \in Children(g, n)}

IsLeaf(g, n) == n \in NodeSet(g) /\ out_degree(g, n) = 0
Parents(g, n) == {p \in NodeSet(g) : n \in Children(g, p)}

\* ------------------------------------------------------------ variables
VARIABLES
  params,        \* the constructor's arguments (__init__)
  graph_,        \* self.graph_: nodes, successors and node attribute dicts
  classes_,      \* self.classes_
  is_tree_,      \* self.is_tree_
  estimators_,   \* self.estimators_: node id -> classifier (None: no key)
  train,         \* the arguments (X, y, sample_weight) of the last fit()
  trace,         \* the last fit(): per node its cache computations and train-or-skip
                 \* decisions, and the exception it ended with
  raised,        \* the exception the last call ended with, or "none"
  nfits,         \* fit() calls so far
  call,          \* the last call made: "none", "fit", "predict" or "predict_proba"
  pc,            \* "idle", or "walk" while the call's prediction walk is in progress
  path,          \* _recursive_predict: path
  clf,           \* _recursive_predict: the node whose classifier is loaded (None: no classifier)
  prediction,    \* _recursive_predict: the last iteration's predicted class
  score,         \* _recursive_predict: the last iteration's top score, in hundredths
  cbret,         \* what the stopping_criteria callback returned in the last iteration
  stack,         \* multi-label: the fan-out targets still to be walked, innermost call first
  result         \* what the last predict call returned for the row

vars == <<params, graph_, classes_, is_tree_, estimators_, train, trace, raised,
          nfits, call, pc, path, clf, prediction, score, cbret, stack, result>>

walk == <<path, clf, prediction, score, cbret, stack, result>>

fitted == <<graph_, classes_, is_tree_, estimators_>>

\* a fit() in progress: self's fitted attributes, the exception raised and the trace
FitState(g, cl, t, e) ==
  [graph_ |-> g, classes_ |-> cl, is_tree_ |-> t, estimators_ |-> e,
   raised |-> "none",
   trace |-> [build |-> [n \in Nodes |-> 0], train |-> [n \in Nodes |-> 0],
              raised |-> "none", objects |-> trace.objects]]

SetAttr(s, n, key, v) ==
  [s EXCEPT !.graph_.attr[n] =
     IF key = "X" THEN [@ EXCEPT !.X = Some(v)]
     ELSE IF key = "metafeatures" THEN [@ EXCEPT !.metafeatures = Some(v)]
     ELSE [@ EXCEPT !.classifier = Some(v)]]

\* ------------------------------------------------------- array helpers
ZeroMatrix == [i \in Rows |-> 0]
MatAdd(a, b) == [i \in Rows |-> a[i] + b[i]]

\* extract_rows_csr(X, indices): X with every row outside indices zeroed
extract_rows_csr(X, indices) == [i \in Rows |-> IF i \in indices THEN X[i] ELSE 0]

\* nnz_rows_ix(X): the indices of the rows of X with a non-zero entry, ascending
nnz_rows_ix(X) == SelectSeqIdx(NRows, [i \in Rows |-> X[i] # 0], 1)

\* np.flatnonzero(y == node_id)
flatnonzero_eq(y, node_id) == {i \in Rows : y[i] = node_id}

RECURSIVE flatten_list(_)
flatten_list(ll) == IF ll = <<>> THEN <<>> ELSE Head(ll) \o flatten_list(Tail(ll))

\* ------------------------------------------------------ Feature Builder
select_features(X, y) == X

build_features(X, y, indices) == select_features(extract_rows_csr(X, indices), y)

build_metafeatures(X, y) ==
  LET ix == nnz_rows_ix(X)
  IN [n_samples |-> Len(ix),
      n_targets |-> Len(unique([k \in DOMAIN ix |-> y[ix[k]]]))]

RECURSIVE recursive_build_features(_, _, _, _)
RECURSIVE build_children(_, _, _, _, _)

\* the loop over successors(node_id) from its k-th element on
build_children(s, X, y, node_id, k) ==
  IF k > out_degree(s.graph_, node_id) THEN s
  ELSE LET r == recursive_build_features(s, X, y, successors(s.graph_, node_id)[k])
           acc == MatAdd(Get(r.s.graph_.attr[node_id].X), r.out)
       IN build_children(SetAttr(r.s, node_id, "X", acc), X, y, node_id, k + 1)

\* returns [s: the state after, out: the matrix returned]
recursive_build_features(s, X, y, node_id) ==
  IF s.graph_.attr[node_id].X # None
  THEN [s |-> s, out |-> Get(s.graph_.attr[node_id].X)]
  ELSE
    LET s1 == [s EXCEPT !.trace.build[node_id] = @ + 1]
    IN IF out_degree(s1.graph_, node_id) = 0
       THEN LET leafX == build_features(X, y, flatnonzero_eq(y, node_id))
            IN [s |-> SetAttr(s1, node_id, "X", leafX), out |-> leafX]
       ELSE LET s2 == SetAttr(s1, node_id, "X", ZeroMatrix)
                s3 == build_children(s2, X, y, node_id, 1)
                nodeX == Get(s3.graph_.attr[node_id].X)
                s4 == SetAttr(s3, node_id, "metafeatures", build_metafeatures(nodeX, y))
            IN [s |-> s4,
                out |-> MatAdd(nodeX, build_features(X, y, flatnonzero_eq(y, node_id)))]

\* ------------------------------------------------------ Rollup Resolver
\* The labels of one row as a set: y[i] is a label, or with mlb the row's label set.
LabelSet(t) == IF params.mlb THEN t ELSE {t}

\* One row rolled up to the level below source: the children of source the row's
\* labels are or descend from, in successor order; through a leaf, the labels unchanged.
rollup_row(g, source, labels) ==
  IF out_degree(g, source) = 0 THEN SortedSeq(labels)
  ELSE LET Qualifies(c) == \E t \in labels : t = c \/ t \in Descendants(g, c)
       IN SelectSeq(successors(g, source), Qualifies)

rollup_nodes(g, source, targets) ==
  [k \in DOMAIN targets |-> rollup_row(g, source, LabelSet(targets[k]))]

RECURSIVE apply_rollup_Xy(_, _)
\* one (row, target) pair per rolled-up target of each row
apply_rollup_Xy(X_, y_rolled_up) ==
  IF X_ = <<>> THEN [X_ |-> <<>>, y_ |-> <<>>]
  ELSE LET rest == apply_rollup_Xy(Tail(X_), Tail(y_rolled_up))
           here == Head(y_rolled_up)
       IN [X_ |-> [k \in DOMAIN here |-> Head(X_)] \o rest.X_,
           y_ |-> here \o rest.y_]

\* mlb.transform(y_rolled_up) and the rows with an active label: indicator rows are
\* kept as the sets of their active labels
mlb_transform_nonzero(X_, y_rolled_up) ==
  LET idx == SelectSeqIdx(Len(X_), [k \in DOMAIN X_ |-> y_rolled_up[k] # <<>>], 1)
  IN [X_ |-> [k \in DOMAIN idx |-> X_[idx[k]]],
      y_ |-> [k \in DOMAIN idx |-> SeqToSet(y_rolled_up[idx[k]])]]

\* len(np.unique(y_)) of an indicator matrix over mlb.classes_ (all of Labels)
num_indicator_values(y_) ==
  Cardinality({1 : k \in DOMAIN y_} \cup {0 : k \in {j \in DOMAIN y_ : y_[j] # Labels}})

\* -------------------------------------------------- Local Classifier Trainer
\* A classifier object: DummyClassifier(strategy="constant") or a clone of the base
\* estimator; classes, rows and targets are what fit() was given ("fitted": it was).
\* obj is the object's identity: the objects fit() constructs are numbered 1, 2, ...
\* (trace.objects counts them), the caller's own estimators have negative numbers;
\* proto is the object a clone was made from.
Classifier(kind, constant, indicator) ==
  [kind |-> kind, constant |-> constant, indicator |-> indicator, fitted |-> FALSE,
   classes |-> <<>>, rows |-> <<>>, targets |-> <<>>, weighted |-> FALSE,
   obj |-> 0, proto |-> 0]

\* the caller's estimator objects: the single estimator or the mapping's entry at key,
\* and what the factory returns for a node
UserEstimator(key) ==
  [Classifier("base", None, FALSE) EXCEPT
     !.obj = IF key = DEFAULT THEN 0 - 1 ELSE 0 - (Rank(key) + 2)]
FactoryEstimator(node_id, g) ==
  [Classifier("base", None, FALSE) EXCEPT !.obj = 0 - (Rank(node_id) + 10)]

\* sklearn.base.clone(est): a new unfitted object with est's parameters
clone(est, obj, indicator) ==
  [Classifier(est.kind, est.constant, indicator) EXCEPT !.obj = obj, !.proto = est.obj]

\* LogisticRegression(...), a new object
make_base_estimator(node_id, obj) == [Classifier("base", None, FALSE) EXCEPT !.obj = obj]

\* _base_estimator_for as it would be if it returned the resolved estimator itself
base_estimator_for_uncloned(s, node_id, indicator) ==
  LET be == params.base_estimator
      n == s.trace.objects
  IN IF be.type = "NoneType"
     THEN [raised |-> "none", clf |-> make_base_estimator(node_id, n + 1), objects |-> n + 1]
     ELSE IF be.type = "dict"
     THEN IF node_id \in be.keys
          THEN [raised |-> "none", clf |-> UserEstimator(node_id), objects |-> n]
          ELSE IF DEFAULT \in be.keys
          THEN [raised |-> "none", clf |-> UserEstimator(DEFAULT), objects |-> n]
          ELSE [raised |-> "KeyError", clf |-> Classifier("base", None, indicator),
                objects |-> n]
     ELSE IF be.type = "estimator"
     THEN [raised |-> "none", clf |-> UserEstimator(ROOT), objects |-> n]
     ELSE [raised |-> "none", clf |-> FactoryEstimator(node_id, s.graph_), objects |-> n]

\* returns [raised, clf: the estimator for the node, objects: the objects made so far]
base_estimator_for(s, node_id, indicator) ==
  LET be == params.base_estimator
      n == s.trace.objects
  IN IF be.type = "NoneType"
     THEN [raised |-> "none",
           clf |-> clone(make_base_estimator(node_id, n + 1), n + 2, indicator),
           objects |-> n + 2]
     ELSE IF be.type = "dict"
     THEN IF node_id \in be.keys
          THEN [raised |-> "none", clf |-> clone(UserEstimator(node_id), n + 1, indicator),
                objects |-> n + 1]
          ELSE IF DEFAULT \in be.keys
          THEN [raised |-> "none", clf |-> clone(UserEstimator(DEFAULT), n + 1, indicator),
                objects |-> n + 1]
          ELSE [raised |-> "KeyError", clf |-> Classifier("base", None, indicator),
                objects |-> n]
     ELSE IF be.type = "estimator"
     THEN [raised |-> "none", clf |-> clone(UserEstimator(ROOT), n + 1, indicator),
           objects |-> n + 1]
     ELSE [raised |-> "none",
           clf |-> clone(FactoryEstimator(node_id, s.graph_), n + 1, indicator),
           objects |-> n + 1]

\* what the fitted estimator reports as classes_: the distinct targets (of indicator
\* rows: the labels active in some row)
fit_classes(c, y_) ==
  IF c.indicator THEN SortedSeq(UNION SeqToSet(y_)) ELSE unique(y_)

\* clf.fit(X=X_, y=y_): no sample_weight argument is passed
clf_fit(c, X_, y_, sample_weight) ==
  [c EXCEPT !.fitted = TRUE, !.rows = X_, !.targets = y_, !.weighted = FALSE,
            !.classes = fit_classes(c, y_)]

\* num_targets = len(np.unique(y_)) (line 524)
num_targets(indicator, y_) ==
  IF indicator THEN num_indicator_values(y_) ELSE Len(unique(y_))

\* the classifier object for the node (lines 542-554): a constant classifier when there
\* is one target, else what _base_estimator_for gives
\* returns [raised, clf, objects: the objects made so far]
new_classifier(s, node_id, indicator, y_) ==
  IF num_targets(indicator, y_) = 1
  THEN [raised |-> "none",
        clf |-> [Classifier("constant", Some(y_[1]), indicator)
                   EXCEPT !.obj = s.trace.objects + 1],
        objects |-> s.trace.objects + 1]
  ELSE base_estimator_for(s, node_id, indicator)

\* fitting the classifier b.clf and storing it (lines 556-573)
fit_and_store(s, node_id, b, X_, y_, sample_weight) ==
  LET raw == params.feature_extraction = "raw"
      s0 == [s EXCEPT !.trace.objects = b.objects]
      called == ~raw \/ Len(X_) > 0
      fit_c == clf_fit(b.clf, X_, y_, sample_weight)
  IN
  IF b.raised # "none"
  THEN [s0 EXCEPT !.raised = b.raised]      \* self.base_estimator[DEFAULT]
  ELSE IF called /\ Len(X_) # Len(y_)
  THEN [s0 EXCEPT !.raised = "ValueError"]  \* clf.fit: inconsistent numbers of samples
  ELSE IF called
  THEN [SetAttr(s0, node_id, "classifier", fit_c) EXCEPT !.estimators_[node_id] = Some(fit_c)]
  ELSE [s0 EXCEPT !.estimators_[node_id] = Some(b.clf)]

\* the decision on the node's training pairs Xy (lines 534-573)
train_on(s, node_id, Xy, indicator, sample_weight) ==
  IF params.feature_extraction # "raw" /\ Len(Xy.X_) = 0 THEN s
  ELSE fit_and_store(s, node_id, new_classifier(s, node_id, indicator, Xy.y_),
                     Xy.X_, Xy.y_, sample_weight)

\* the pairs (X_, y_) made of the selected rows and their rolled-up targets (lines 505-522)
rolled_up_Xy(tree, nnz_rows, y_rolled_up) ==
  IF tree
  THEN IF ~params.mlb
       THEN [X_ |-> nnz_rows, y_ |-> flatten_list(y_rolled_up)]
       ELSE mlb_transform_nonzero(nnz_rows, y_rolled_up)
  ELSE apply_rollup_Xy(nnz_rows, y_rolled_up)

\* the rows the node trains on: all of them (raw) or the non-zero rows of its cache
selected_rows(g, node_id) ==
  IF params.feature_extraction = "raw" THEN [i \in Rows |-> i]
  ELSE nnz_rows_ix(Get(g.attr[node_id].X))

\* y[idx] for idx in nnz_rows
targets_of(y, nnz_rows) == [k \in DOMAIN nnz_rows |-> y[nnz_rows[k]]]

train_rows(s, y, sample_weight, node_id, nnz_rows) ==
  train_on(s, node_id,
           rolled_up_Xy(s.is_tree_, nnz_rows,
                        rollup_nodes(s.graph_, node_id, targets_of(y, nnz_rows))),
           s.is_tree_ /\ params.mlb, sample_weight)

train_local_classifier(s, X, y, sample_weight, node_id) ==
  IF out_degree(s.graph_, node_id) = 0 /\ params.algorithm = "lcpn" THEN s
  ELSE train_rows(s, y, sample_weight, node_id, selected_rows(s.graph_, node_id))

RECURSIVE recursive_train_local_classifiers(_, _, _, _, _)
RECURSIVE train_children(_, _, _, _, _, _)

train_children(s, X, y, sample_weight, node_id, k) ==
  IF k > out_degree(s.graph_, node_id) \/ s.raised # "none" THEN s
  ELSE train_children(
         recursive_train_local_classifiers(s, X, y, sample_weight,
                                           successors(s.graph_, node_id)[k]),
         X, y, sample_weight, node_id, k + 1)

recursive_train_local_classifiers(s, X, y, sample_weight, node_id) ==
  IF s.graph_.attr[node_id].classifier # None THEN s
  ELSE LET s1 == [s EXCEPT !.trace.train[node_id] = @ + 1]
           s2 == train_local_classifier(s1, X, y, sample_weight, node_id)
       IN IF s2.raised # "none" THEN s2
          ELSE train_children(s2, X, y, sample_weight, node_id, 1)

\* ------------------------------------------------------------------ fit
\* validate_parameters(self): a training strategy needs algorithm "lcn"
check_parameters == params.training_strategy = "None" \/ params.algorithm = "lcn"

\* check_X_y(X, y) takes 1-d targets only: an indicator matrix (mlb) is refused
check_X_y == ~params.mlb

init_graph(s, y) ==
  LET class_hierarchy_ == IF params.class_hierarchy # "None"
                          THEN class_hierarchy_succ(params.class_hierarchy)
                          ELSE make_flat_hierarchy(unique(y))
      g == DiGraph(class_hierarchy_)
  IN [s EXCEPT !.graph_ = g, !.is_tree_ = is_tree(g),
               !.classes_ = SelectSeq(g.nodes, LAMBDA n : n # ROOT)]

\* fit() as it would be with the graph initialised before the parameter check
fit_graph_before_check(s, X, y, sample_weight) ==
  IF params.feature_extraction # "raw" /\ ~check_X_y
  THEN [s EXCEPT !.raised = "ValueError"]
  ELSE LET s1 == init_graph(s, y)
       IN IF ~check_parameters
          THEN [s1 EXCEPT !.raised = "ValueError"]
          ELSE LET s2 == IF params.feature_extraction = "preprocessed"
                         THEN recursive_build_features(s1, X, y, ROOT).s
                         ELSE s1
               IN recursive_train_local_classifiers(s2, X, y, sample_weight, ROOT)

fit(s, X, y, sample_weight) ==
  IF params.feature_extraction # "raw" /\ ~check_X_y
  THEN [s EXCEPT !.raised = "ValueError"]
  ELSE IF ~check_parameters
  THEN [s EXCEPT !.raised = "ValueError"]
  ELSE LET s1 == init_graph(s, y)
           s2 == IF params.feature_extraction = "preprocessed"
                 THEN recursive_build_features(s1, X, y, ROOT).s
                 ELSE s1
       IN recursive_train_local_classifiers(s2, X, y, sample_weight, ROOT)

\* ----------------------------------------------------------------- Init
\* stopping_criteria: None, a float, an int or a callback; values in hundredths
NoCriteria == [type |-> "NoneType", value |-> 0]
FloatCriteria == [type |-> "float", value |-> 50]
IntCriteria == [type |-> "int", value |-> 100]
CallbackCriteria == [type |-> "function", value |-> 0]

\* base_estimator: None, an estimator, a dict from node ids or DEFAULT to estimators
\* (keys: its keys), or a factory function
NoBaseEstimator == [type |-> "NoneType", keys |-> {}]
BaseEstimators ==
  {NoBaseEstimator, [type |-> "estimator", keys |-> {}], [type |-> "function", keys |-> {}]}
  \cup {[type |-> "dict", keys |-> K] : K \in {{ROOT, DEFAULT}, {DEFAULT}, {ROOT}, {"A"}}}

ParamSpace ==
  [ base_estimator : BaseEstimators,
    algorithm : {"lcpn", "lcn"},
    training_strategy : {"None", "exclusive"},
    prediction_depth : {"mlnp", "nmlnp"},
    stopping_criteria : {NoCriteria, FloatCriteria, IntCriteria, CallbackCriteria},
    feature_extraction : {"preprocessed", "raw"},
    class_hierarchy : {"None"} \cup HierarchyNames,
    mlb : BOOLEAN,
    mlb_prediction_threshold : {30} ]

\* The instances whose prediction walks are explored: every algorithm, hierarchy,
\* feature mode and stopping policy; multi-label instances are given a hierarchy
\* (np.unique of an indicator matrix is no label list) and raw examples.
ParamsWalk ==
  { p \in ParamSpace :
      /\ p.base_estimator = NoBaseEstimator
      /\ p.training_strategy = "None"
      /\ p.prediction_depth = "mlnp" => p.stopping_criteria \in {NoCriteria, FloatCriteria}
      /\ p.mlb => /\ p.class_hierarchy # "None"
                  /\ p.feature_extraction = "raw"
                  /\ p.prediction_depth = "mlnp"
                  /\ p.stopping_criteria = NoCriteria }

NoTrace == [build |-> [n \in Nodes |-> 0], train |-> [n \in Nodes |-> 0], raised |-> "none",
            objects |-> 0]
NoTrain == [X |-> <<>>, y |-> <<>>, sample_weight |-> FALSE]

InitWith(P) ==
  /\ params \in P
  /\ graph_ = NoGraph
  /\ classes_ = <<>>
  /\ is_tree_ = FALSE
  /\ estimators_ = [n \in Nodes |-> None]
  /\ train = NoTrain
  /\ trace = NoTrace
  /\ raised = "none"
  /\ nfits = 0
  /\ call = "none"
  /\ pc = "idle"
  /\ path = <<>>
  /\ clf = None
  /\ prediction = None
  /\ score = None
  /\ cbret = None
  /\ stack = <<>>
  /\ result = None

Init == InitWith(ParamsWalk)

\* ------------------------------------------------------------ fit calls
\* the targets of one row: a label, or with mlb a set of one or two labels
Targets == IF params.mlb THEN {S \in SUBSET Labels : Cardinality(S) \in {1, 2}} ELSE Labels

RECURSIVE SetKey(_)
SetKey(S) == IF S = {} THEN 0
             ELSE LET m == CHOOSE a \in S : TRUE IN 2 ^ Rank(m) + SetKey(S \ {m})
RowKey(v, t) == 2 * (IF params.mlb THEN SetKey(t) ELSE Rank(t)) + v

\* Training sets, one per multiset of rows (the rows listed in ascending order:
\* nothing in fit() depends on the order of the rows).  Raw examples have no
\* feature vector to be zero, and with mlb fit() never reads the features of a
\* preprocessed matrix (check_X_y refuses the targets first).
TrainingSets ==
  { d \in [X : [Rows -> {0, 1}], y : [Rows -> Targets]] :
      /\ \A i \in Rows : i < NRows => RowKey(d.X[i], d.y[i]) <= RowKey(d.X[i + 1], d.y[i + 1])
      /\ (params.feature_extraction = "raw" \/ params.mlb) => \A i \in Rows : d.X[i] = 1 }

FitCall(d, sample_weight) ==
  /\ pc = "idle"
  /\ LET s == fit(FitState(graph_, classes_, is_tree_, estimators_), d.X, d.y, sample_weight)
     IN /\ graph_' = s.graph_
        /\ classes_' = s.classes_
        /\ is_tree_' = s.is_tree_
        /\ estimators_' = s.estimators_
        /\ raised' = s.raised
        /\ trace' = [s.trace EXCEPT !.raised = s.raised]
        /\ train' = [X |-> d.X, y |-> d.y, sample_weight |-> sample_weight]
  /\ nfits' = nfits + 1
  /\ call' = "fit"
  /\ UNCHANGED <<params, pc, path, clf, prediction, score, cbret, stack, result>>

\* fit(X, y) on a new instance
Fit == nfits = 0 /\ \E d \in TrainingSets : FitCall(d, FALSE)

\* fit(X, y, sample_weight=w) on a new instance, w None or one weight per row
FitWeighted == nfits = 0 /\ \E d \in TrainingSets, w \in BOOLEAN : FitCall(d, w)

\* set_params(training_strategy=...) on a fitted instance
SetParams ==
  /\ pc = "idle"
  /\ nfits >= 1 /\ nfits < MaxFits
  /\ call # "set_params"
  /\ \E ts \in {"None", "exclusive"} :
       /\ ts # params.training_strategy
       /\ params' = [params EXCEPT !.training_strategy = ts]
  /\ call' = "set_params"
  /\ UNCHANGED <<graph_, classes_, is_tree_, estimators_, train, trace, raised, nfits,
                 pc, path, clf, prediction, score, cbret, stack, result>>

\* fit() again on a fitted instance, with the data of the fit before
Refit ==
  /\ nfits >= 1 /\ nfits < MaxFits
  /\ FitCall([X |-> train.X, y |-> train.y], train.sample_weight)

\* the data of a later fit() on a fitted instance (features all present); with
\* class_hierarchy None the hierarchy is built from its y and differs from the one before
RefitSets == {d \in TrainingSets : \A i \in Rows : d.X[i] = 1}

\* fit(X, y) on a new instance, or fit(X2, y2) on a fitted one
FitAgain ==
  /\ nfits < MaxFits
  /\ \E d \in (IF nfits = 0 THEN TrainingSets ELSE RefitSets) : FitCall(d, FALSE)

\* ------------------------------------------------------ Prediction Walker
\* A fitted classifier's top score for a row, in hundredths: a constant classifier
\* is certain, any other reports some score.
Scores == {40, 50}
TopScores(c) == IF c.kind = "constant" THEN {100} ELSE Scores

\* the per-class scores a multi-label classifier reports
MlbScores == {10, 30, 40}

\* _should_early_terminate as it would be without the root exemption
should_early_terminate_at_root(current_node, pred, sc, cb) ==
  IF params.prediction_depth # "nmlnp" THEN FALSE
  ELSE IF params.stopping_criteria.type = "float" /\ sc < params.stopping_criteria.value
  THEN TRUE
  ELSE IF params.stopping_criteria.type = "function" THEN cb
  ELSE FALSE

\* _should_early_terminate as the docstring describes the callback: True continues
should_early_terminate_docstring(current_node, pred, sc, cb) ==
  IF params.prediction_depth # "nmlnp" THEN FALSE
  ELSE IF params.stopping_criteria.type = "float" /\ sc < params.stopping_criteria.value
  THEN current_node # ROOT
  ELSE IF params.stopping_criteria.type = "function" THEN ~cb
  ELSE FALSE

should_early_terminate(current_node, pred, sc, cb) ==
  IF params.prediction_depth # "nmlnp" THEN FALSE
  ELSE IF params.stopping_criteria.type = "float" /\ sc < params.stopping_criteria.value
  THEN current_node # ROOT
  ELSE IF params.stopping_criteria.type = "function" THEN cb
  ELSE FALSE

\* whether _should_early_terminate calls the stopping_criteria callback
calls_callback(sc) ==
  /\ params.prediction_depth = "nmlnp"
  /\ params.stopping_criteria.type = "function"

\* self.graph_.nodes[node].get(CLASSIFIER, None), as the node that holds it
load_classifier(g, node) == IF g.attr[node].classifier = None THEN None ELSE Some(node)

\* what _classify makes of the walker's (path, class_proba)
classify_result(api, p) ==
  IF api = "predict_proba" THEN Some("class_proba")
  ELSE IF params.mlb THEN Some(p)
  ELSE Some(p[Len(p)])

\* One iteration of the single-label loop at the loaded classifier c, which predicts
\* pred with top score sc; cb is what the callback returns if it is called.
\* Returns the locals after it and self.graph_.
\* the loop's iteration as it would be if it cached the score on the visited node
walk_step_caching(g, p, c, pred, sc, cb) ==
  LET stop == should_early_terminate(p[Len(p)], pred, sc, cb)
  IN [graph_ |-> [g EXCEPT !.attr[p[Len(p)]].metafeatures = Some([score |-> sc])],
      path |-> IF stop THEN p ELSE Append(p, pred),
      clf |-> IF stop THEN None ELSE load_classifier(g, pred),
      stop |-> stop]

walk_step(g, p, c, pred, sc, cb) ==
  LET stop == should_early_terminate(p[Len(p)], pred, sc, cb)
  IN [graph_ |-> g,
      path |-> IF stop THEN p ELSE Append(p, pred),
      clf |-> IF stop THEN None ELSE load_classifier(g, pred),
      stop |-> stop]

\* predict(X) / predict_proba(X), one row: check_is_fitted, then the walk from the root
PredictCall(api) ==
  /\ pc = "idle"
  /\ prediction' = None /\ score' = None /\ cbret' = None /\ stack' = <<>>
  /\ IF graph_ = NoGraph
     THEN /\ raised' = "NotFittedError"
          /\ path' = <<>> /\ clf' = None /\ result' = None /\ pc' = "idle"
     ELSE IF graph_.attr[ROOT].classifier = None
     THEN \* _recursive_predict returns (None, None); predict takes path[-1] of it
          /\ raised' = IF api = "predict" /\ ~params.mlb THEN "TypeError" ELSE "none"
          /\ path' = <<>> /\ clf' = None /\ result' = None /\ pc' = "idle"
     ELSE /\ raised' = "none"
          /\ path' = <<ROOT>> /\ clf' = Some(ROOT) /\ result' = None /\ pc' = "walk"
  /\ call' = api
  /\ UNCHANGED <<params, graph_, classes_, is_tree_, estimators_, train, trace, nfits>>

Predict == PredictCall("predict")

PredictProba == PredictCall("predict_proba")

\* the while loop's body, single-label (lines 584-647), and the return after it
WalkStep ==
  /\ pc = "walk"
  /\ ~params.mlb
  /\ clf # None
  /\ Len(path) < MaxPathLen
  /\ LET c == Get(graph_.attr[Get(clf)].classifier)
     IN IF \E class \in SeqToSet(c.classes) : class \notin SeqToSet(classes_)
        THEN \* self.classes_.index(class_) raises
             /\ raised' = "ValueError" /\ pc' = "idle" /\ clf' = None
             /\ UNCHANGED <<graph_, path, prediction, score, cbret, result>>
        ELSE \E pred \in SeqToSet(c.classes), sc \in TopScores(c), cb \in BOOLEAN :
               LET r == walk_step(graph_, path, c, pred, sc, cb)
               IN /\ graph_' = r.graph_
                  /\ path' = r.path
                  /\ clf' = r.clf
                  /\ prediction' = Some(pred)
                  /\ score' = Some(sc)
                  /\ cbret' = IF calls_callback(sc) THEN Some(cb) ELSE None
                  /\ pc' = IF r.clf = None THEN "idle" ELSE pc
                  /\ result' = IF r.clf = None THEN classify_result(call, r.path) ELSE None
                  /\ raised' = "none"
  /\ UNCHANGED <<params, classes_, is_tree_, estimators_, train, trace, nfits, call, stack>>

\* Multi-label (lines 584-614, 648-657).  stack holds the calls of _recursive_predict
\* in progress, innermost first: the node, the predictions its loop has still to visit
\* and its class_proba (a vector over the classes, 0 where nothing was scattered).  The
\* path is kept as the outermost call will return it.
ZeroProba == [l \in Labels |-> 0]
ProbaAdd(a, b) == [l \in Labels |-> a[l] + b[l]]

\* class_proba[class_idx] = probs[0, local_class_idx] for every local class
scatter(c, probs) ==
  [l \in Labels |->
     IF \E k \in DOMAIN c.classes : c.classes[k] = l
     THEN probs[CHOOSE k \in DOMAIN c.classes : c.classes[k] = l]
     ELSE ZeroProba[l]]

\* the fan-out as it would be with a threshold that is reached, not exceeded
fan_out_at_threshold(c, probs) ==
  LET Hot(k) == probs[k] >= params.mlb_prediction_threshold
      idx == SelectSeqIdx(Len(c.classes), [k \in DOMAIN c.classes |-> Hot(k)], 1)
  IN [k \in DOMAIN idx |-> c.classes[idx[k]]]

\* the classes scoring above the threshold, in clf.classes_ order
fan_out(c, probs) ==
  LET Hot(k) == probs[k] > params.mlb_prediction_threshold
      idx == SelectSeqIdx(Len(c.classes), [k \in DOMAIN c.classes |-> Hot(k)], 1)
  IN [k \in DOMAIN idx |-> c.classes[idx[k]]]

\* the call _recursive_predict(x, node) at a node with a classifier, up to its loop
\* over the predictions: at the root, or at the prediction the caller recursed into
MlbEnter ==
  /\ pc = "walk"
  /\ params.mlb
  /\ clf # None
  /\ Len(path) < MaxPathLen
  /\ LET c == Get(graph_.attr[Get(clf)].classifier)
     IN IF ~c.indicator
        THEN \* class_proba[class_idx] with a node identifier as the index
             /\ raised' = "IndexError" /\ pc' = "idle" /\ clf' = None /\ stack' = <<>>
             /\ UNCHANGED <<path, result>>
        ELSE \E probs \in [DOMAIN c.classes -> MlbScores] :
               /\ stack' = <<[node |-> Get(clf),
                              todo |-> fan_out(c, probs),
                              class_proba |-> scatter(c, probs)]>> \o stack
               /\ clf' = None
               /\ UNCHANGED <<path, raised, pc, result>>
  /\ UNCHANGED <<params, graph_, classes_, is_tree_, estimators_, train, trace, nfits,
                 call, prediction, score, cbret>>

\* One step of the innermost call's loop over its predictions: the recursive call for
\* the next prediction (which returns None, None at once when the prediction holds no
\* classifier) with path.append(prediction) and path.extend(pred_path), whose first
\* element is the prediction again; or, the loop done, the return of (path,
\* class_proba) to the caller, which adds the vector to its own.
MlbNext ==
  /\ pc = "walk"
  /\ params.mlb
  /\ clf = None
  /\ stack # <<>>
  /\ LET top == Head(stack)
     IN IF top.todo # <<>>
        THEN LET target == Head(top.todo)
                 sub == load_classifier(graph_, target)
             IN /\ Len(path) + 1 < MaxPathLen
                /\ path' = IF sub = None THEN Append(path, target)
                           ELSE path \o <<target, target>>
                /\ stack' = <<[top EXCEPT !.todo = Tail(@)]>> \o Tail(stack)
                /\ clf' = sub
                /\ prediction' = Some(target)
                /\ UNCHANGED <<pc, result>>
        ELSE IF Tail(stack) = <<>>
        THEN /\ stack' = <<>>
             /\ pc' = "idle"
             /\ result' = IF call = "predict_proba" THEN Some(top.class_proba)
                          ELSE classify_result(call, path)
             /\ UNCHANGED <<path, clf, prediction>>
        ELSE /\ stack' = <<[stack[2] EXCEPT !.class_proba = ProbaAdd(@, top.class_proba)]>>
                         \o Tail(Tail(stack))
             /\ UNCHANGED <<path, clf, prediction, pc, result>>
  /\ UNCHANGED <<params, graph_, classes_, is_tree_, estimators_, train, trace, nfits,
                 call, raised, score, cbret>>

Next == Fit \/ Predict \/ PredictProba \/ WalkStep \/ MlbEnter \/ MlbNext

Spec == Init /\ [][Next]_vars

\* fit() alone, over every parameter assignment that bears on it, with and without
\* sample weights
ParamsFit ==
  { p \in ParamSpace :
      /\ p.base_estimator = NoBaseEstimator
      /\ p.prediction_depth = "mlnp"
      /\ p.stopping_criteria = NoCriteria
      /\ p.mlb => p.class_hierarchy # "None" }

InitFit == InitWith(ParamsFit)

NextFit == FitWeighted \/ SetParams \/ Refit

SpecFit == InitFit /\ [][NextFit]_vars

\* base estimators: one single-label fit() for every kind of base_estimator
ParamsBase ==
  { p \in ParamSpace :
      /\ p.training_strategy = "None"
      /\ p.prediction_depth = "mlnp"
      /\ p.stopping_criteria = NoCriteria
      /\ ~p.mlb }

InitBase == InitWith(ParamsBase)

NextBase == Fit

SpecBase == InitBase /\ [][NextBase]_vars

\* a sequence of single-label fit() calls on one instance, with other data each time
ParamsRefit ==
  { p \in ParamSpace :
      /\ p.base_estimator = NoBaseEstimator
      /\ p.training_strategy = "None"
      /\ p.prediction_depth = "mlnp"
      /\ p.stopping_criteria = NoCriteria
      /\ ~p.mlb }

InitRefit == InitWith(ParamsRefit)

NextRefit == FitAgain

SpecRefit == InitRefit /\ [][NextRefit]_vars

\* ====================================================================== claims
FitDone == nfits >= 1 /\ trace.raised = "none" /\ graph_ # NoGraph
HasClassifier(n) == graph_.attr[n].classifier # None
ClassifierAt(n) == Get(graph_.attr[n].classifier)
Last(p) == p[Len(p)]
InternalNodes == {n \in NodeSet(graph_) : out_degree(graph_, n) > 0}
LeafNodes == {n \in NodeSet(graph_) : out_degree(graph_, n) = 0}

\* the targets the classifier c was trained to give for training row r
TrainedTargets(c, r) == {c.targets[j] : j \in {k \in DOMAIN c.rows : c.rows[k] = r}}

\* every step of the walk so far gave training row r the target its classifier was
\* trained on, wherever r was among that classifier's training rows
ExactFor(r) ==
  \A k \in 1..(Len(path) - 1) :
    \/ ~HasClassifier(path[k])
    \/ TrainedTargets(ClassifierAt(path[k]), r) = {}
    \/ path[k + 1] \in TrainedTargets(ClassifierAt(path[k]), r)

TreeWithDistinctLeafLabels ==
  /\ FitDone /\ is_tree_ /\ ~params.mlb
  /\ \A i \in Rows : train.y[i] \in LeafNodes
  /\ \A i, j \in Rows : i # j => train.y[i] # train.y[j]

\* C1: on a tree whose training labels are distinct leaves, fitted in mandatory-leaf
\* mode (lcpn or lcn), predict() on a training row whose classifiers reproduce their
\* training targets returns that row's leaf and raises nothing: while the walk runs it
\* has not yet reached the leaf, and once predict() has returned, it returned the leaf.
C1_TrainingRowRecovered ==
  (TreeWithDistinctLeafLabels /\ params.prediction_depth = "mlnp" /\ call = "predict") =>
    \A r \in Rows :
      ExactFor(r) =>
        /\ pc = "walk" => train.y[r] \notin SeqToSet(path)
        /\ pc = "idle" => raised = "none" /\ result = Some(train.y[r])

\* C2: in mandatory-leaf mode the single-label walk terminates, at a leaf or at a node
\* with no classifier, for lcpn and lcn.  A classifier answers the same row the same
\* way each time, so the walk terminates exactly when it never loads the classifier
\* of a node it has already left: the loaded node occurs once in the path.
C2_WalkTerminates ==
  (pc = "walk" /\ ~params.mlb /\ params.prediction_depth = "mlnp" /\ clf # None) =>
    Cardinality({k \in DOMAIN path : path[k] = Get(clf)}) = 1

\* C3: after fit() with lcpn on a hierarchy whose every internal node has a training
\* row below it, every internal node holds a classifier and no leaf holds one.
C3_LcpnClassifiersAtInternalNodes ==
  (/\ FitDone /\ params.algorithm = "lcpn" /\ ~params.mlb
   /\ \A n \in InternalNodes : \E i \in Rows : train.y[i] \in Descendants(graph_, n)) =>
    /\ \A n \in InternalNodes : HasClassifier(n)
    /\ \A n \in LeafNodes : ~HasClassifier(n)

\* one iteration of the single-label loop that scored the row (no lookup failure)
Scored == WalkStep /\ raised' = "none"
Stopped == path' = path /\ pc' = "idle" /\ result' = classify_result(call, path)
Descended == path' = Append(path, Get(prediction'))

ThresholdRule ==
  /\ (Last(path) # ROOT /\ Get(score') < params.stopping_criteria.value) => Stopped
  /\ Last(path) = ROOT => Descended

\* C4 as stated: in non-mandatory mode with a numeric threshold, integer or float, a
\* step at a node other than the root whose top score is below the threshold stops
\* there without appending the predicted child, and a step at the root never stops.
C4_NumericThresholdStops ==
  [][(/\ Scored
      /\ params.prediction_depth = "nmlnp"
      /\ params.stopping_criteria.type \in {"float", "int"}) => ThresholdRule]_vars

\* C4 amended: the same, for a threshold given as a float.
C4_FloatThresholdStops ==
  [][(/\ Scored
      /\ params.prediction_depth = "nmlnp"
      /\ params.stopping_criteria.type = "float") => ThresholdRule]_vars

C4_Witness ==
  /\ params.prediction_depth = "nmlnp" /\ params.stopping_criteria.type = "float"
  /\ call = "predict" /\ pc = "idle" /\ raised = "none"
  /\ path = <<ROOT, "A">> /\ score = Some(40) /\ result = Some("A")

CallbackStep ==
  /\ Scored
  /\ params.prediction_depth = "nmlnp"
  /\ params.stopping_criteria.type = "function"

\* C5: with a callable stopping_criteria, a return value of True makes classification
\* continue down the hierarchy and False makes it stop at the current node.
C5_CallbackTrueContinues ==
  [][CallbackStep =>
       /\ cbret' = Some(TRUE) => Descended
       /\ cbret' = Some(FALSE) => Stopped]_vars

C7_NoClassifierNoError ==
  [][((Predict \/ PredictProba) /\ graph_ # NoGraph /\ ~HasClassifier(ROOT)) =>
       (raised' = "none" /\ result' = None /\ pc' = "idle")]_vars

\* a call of fit() returns or raises
FitReturns == call' = "fit" /\ nfits' = nfits + 1

\* C8: fit() with an invalid parameter combination fails before any fitting work: no
\* graph is built, no feature cache or classifier is written, and graph_, classes_
\* and estimators_ are what they were before the call.
C8_InvalidParametersFailFast ==
  [][(FitReturns /\ ~check_parameters) =>
       /\ raised' = "ValueError"
       /\ UNCHANGED <<graph_, classes_, is_tree_, estimators_>>
       /\ \A n \in Nodes : trace'.build[n] = 0 /\ trace'.train[n] = 0]_vars

C8_Witness ==
  /\ ~check_parameters /\ call = "fit" /\ nfits = 2
  /\ raised = "ValueError" /\ graph_ # NoGraph /\ HasClassifier(ROOT)

\* C9: after fit(), predict() and predict_proba() calls leave the training state as
\* it is: the graph, every node's feature cache, metafeatures and classifier,
\* classes_ and estimators_, in single-label and multi-label mode.
C9_PredictionReadsOnly ==
  [][(Predict \/ PredictProba \/ WalkStep \/ MlbEnter \/ MlbNext) =>
       UNCHANGED <<graph_, classes_, is_tree_, estimators_>>]_vars

C9_Witness ==
  /\ FitDone /\ call = "predict_proba" /\ pc = "idle" /\ Len(path) >= 3
  /\ result = Some("class_proba")

\* C10: when fit() is given sample_weight, every local classifier fitted at a node is
\* handed sample weights in its fit call; with no sample_weight none are passed.
C10_SampleWeightsPassed ==
  (call = "fit" /\ trace.raised = "none") =>
    \A n \in Nodes : HasClassifier(n) => (ClassifierAt(n).weighted <=> train.sample_weight)

\* the nodes of the current graph that hold a classifier made from the base estimator
BaseNodes == {n \in NodeSet(graph_) : HasClassifier(n) /\ ClassifierAt(n).kind = "base"}

\* the caller's object that base_estimator designates for node n (0: none, the
\* built-in default is made on the spot)
Designated(n) ==
  LET be == params.base_estimator
  IN IF be.type = "NoneType" THEN 0
     ELSE IF be.type = "estimator" THEN UserEstimator(ROOT).obj
     ELSE IF be.type = "function" THEN FactoryEstimator(n, graph_).obj
     ELSE IF n \in be.keys THEN UserEstimator(n).obj
     ELSE UserEstimator(DEFAULT).obj

\* C11: a node's non-constant classifier is a clone of the estimator base_estimator
\* designates for it (the single estimator, the mapping's entry at the node's key or
\* else at DEFAULT, the factory's result for the node, or the built-in default): a new
\* object that is fitted, never the caller's own object and never an object another
\* node holds; with a mapping that has neither the node's key nor DEFAULT no such
\* classifier is made, fit() raises KeyError.
C11_BaseEstimatorCloned ==
  (call = "fit" /\ graph_ # NoGraph) =>
    /\ \A n \in BaseNodes :
         LET c == ClassifierAt(n)
         IN /\ c.fitted
            /\ c.obj > 0
            /\ c.proto # c.obj
            /\ IF Designated(n) = 0 THEN c.proto > 0 ELSE c.proto = Designated(n)
            /\ \A m \in NodeSet(graph_) \ {n} :
                 HasClassifier(m) =>
                   /\ ClassifierAt(m).obj # c.obj
                   /\ ClassifierAt(m).obj # c.proto
            /\ params.base_estimator.type = "dict" =>
                 (n \in params.base_estimator.keys \/ DEFAULT \in params.base_estimator.keys)
    /\ trace.raised = "KeyError" =>
         /\ params.base_estimator.type = "dict"
         /\ DEFAULT \notin params.base_estimator.keys
         /\ \E n \in NodeSet(graph_) : n \notin params.base_estimator.keys /\ ~HasClassifier(n)

C11_Witness ==
  /\ call = "fit" /\ trace.raised = "none"
  /\ params.base_estimator = [type |-> "dict", keys |-> {DEFAULT}]
  /\ {ROOT, "A"} \subseteq BaseNodes
  /\ ClassifierAt(ROOT).proto = ClassifierAt("A").proto
  /\ ClassifierAt(ROOT).obj # ClassifierAt("A").obj

\* a multi-label call that scored the row at its node's classifier
MlbScored == MlbEnter /\ raised' = "none"
\* the innermost call's loop is done and it returns
MlbReturns == MlbNext /\ Head(stack).todo = <<>>

Built == FitDone /\ call = "fit" /\ params.feature_extraction = "preprocessed"
Cache(n) == Get(graph_.attr[n].X)
\* row i has an entry in the node's cache (rows that do not belong to it are empty)
InCache(n, i) == Cache(n)[i] # 0
\* row i is one of the rows the node's classifier was fitted on
InTrainingSet(n, i) ==
  HasClassifier(n) /\ \E k \in DOMAIN ClassifierAt(n).rows : ClassifierAt(n).rows[k] = i
Ancestors(n) == {a \in NodeSet(graph_) : n \in Descendants(graph_, a)}

\* C13: after the Feature Builder pass in preprocessed mode, when no row is labelled
\* with an intermediate node, the root's n_samples is the number of rows given to
\* fit(), whatever the rows' features (all-zero rows included).
C13_RootCountsEveryRow ==
  (Built /\ \A i \in Rows : train.y[i] \in LeafNodes) =>
    Get(graph_.attr[ROOT].metafeatures).n_samples = NRows

\* C14: in a DAG where a leaf L has two parents A and B that are children of one node,
\* after fit() every row labelled L is in the training set of A and in that of B, and
\* in preprocessed mode in the cache of both.
C14_SharedLeafRowInBothParents ==
  (FitDone /\ call = "fit" /\ ~params.mlb) =>
    \A L \in LeafNodes : \A A, B \in Parents(graph_, L) :
      (A # B /\ \E P \in NodeSet(graph_) : {A, B} \subseteq Children(graph_, P)) =>
        \A i \in Rows :
          train.y[i] = L =>
            /\ InTrainingSet(A, i) /\ InTrainingSet(B, i)
            /\ params.feature_extraction = "preprocessed" => InCache(A, i) /\ InCache(B, i)

\* C15: the Feature Builder computes each node's cache once (one progress update per
\* node), and a node's cache holds a row below it once: the row's features as they
\* are, not added up twice where two children lead to the row's label.
C15_CacheOnceAndRowsOnce ==
  Built =>
    \A n \in NodeSet(graph_) :
      /\ trace.build[n] = 1
      /\ \A i \in Rows : Cache(n)[i] \in {0, train.X[i]}

\* C16: during one fit() the trainer processes every node of the graph once: one
\* train-or-skip decision and one progress update per node, also for a node with
\* several parents that ends up without a classifier.
C16_TrainerVisitsOnce ==
  (FitDone /\ call = "fit") => \A n \in NodeSet(graph_) : trace.train[n] = 1

\* C17: the trainer's decision table at every node that is not a leaf under lcpn, after
\* a fit() that succeeded: no selected rows, no classifier at the node; one distinct
\* rolled-up target v, a constant classifier predicting v; several, a fitted clone of
\* the base estimator.
C17_DecisionTable ==
  (FitDone /\ call = "fit") =>
    \A n \in NodeSet(graph_) :
      ~(out_degree(graph_, n) = 0 /\ params.algorithm = "lcpn") =>
        IF HasClassifier(n)
        THEN LET c == ClassifierAt(n)
                 values == SeqToSet(c.targets)
             IN /\ c.fitted /\ c.rows # <<>> /\ Len(c.rows) = Len(c.targets)
                /\ Cardinality(values) = 1 =>
                     (c.kind = "constant" /\ c.constant = Some(c.targets[1]))
                /\ Cardinality(values) > 1 => (c.kind = "base" /\ c.proto # 0)
        ELSE IF params.feature_extraction = "preprocessed"
             THEN \A i \in Rows : ~InCache(n, i)
             ELSE \A i \in Rows : rollup_row(graph_, n, LabelSet(train.y[i])) = <<>>

\* C18: the rows labelled with an internal node n are in n's own stored cache and in
\* the cache of every ancestor of n (rows with features that are not all zero).
C18_IntermediateRowsPropagate ==
  Built =>
    \A n \in InternalNodes : \A i \in Rows :
      (train.y[i] = n /\ train.X[i] # 0) =>
        /\ InCache(n, i)
        /\ \A a \in Ancestors(n) : InCache(a, i)

\* C19: after any sequence of fit() calls on one instance, the last of which succeeded,
\* estimators_ and the node attributes of the current graph agree: a node id is a key
\* of estimators_ exactly when the node is in the graph and holds a fitted classifier,
\* and then both are the same object.
C19_EstimatorsAgreeWithNodes ==
  (FitDone /\ call = "fit") =>
    \A n \in Nodes :
      /\ estimators_[n] # None <=>
           (n \in NodeSet(graph_) /\ HasClassifier(n) /\ ClassifierAt(n).fitted)
      /\ (estimators_[n] # None /\ HasClassifier(n)) => estimators_[n] = graph_.attr[n].classifier

\* a simple directed path of the current graph that starts at the root
SimplePath(p) ==
  /\ p # <<>> /\ p[1] = ROOT
  /\ \A k \in 1..(Len(p) - 1) : p[k + 1] \in Children(graph_, p[k])
  /\ \A j, k \in DOMAIN p : j # k => p[j] # p[k]

\* C20: in single-label mode the walker's path is at every step a simple directed path
\* from the root (first element the root, consecutive elements joined by an edge, no
\* node twice), and the label predict() returns is a member of classes_, never the root.
C20_SimplePathAndLabelInClasses ==
  (~params.mlb /\ call \in {"predict", "predict_proba"}) =>
    /\ path # <<>> => SimplePath(path)
    /\ (call = "predict" /\ pc = "idle" /\ result # None) =>
         Get(result) \in SeqToSet(classes_)

\* C21: in multi-label mode the label list predict() returns for a row lists no node
\* twice (each fan-out target once, with or without a classifier of its own) and holds
\* members of classes_ only: the root is not among the predicted labels.
C21_MlbLabelsOnceAndInClasses ==
  (params.mlb /\ call = "predict" /\ pc = "idle" /\ raised = "none" /\ result # None) =>
    LET labels == Get(result)
    IN /\ \A j, k \in DOMAIN labels : j # k => labels[j] # labels[k]
       /\ \A k \in DOMAIN labels : labels[k] \in SeqToSet(classes_)

====
